---- MODULE Spec2Model ----
(***************************************************************************)
(* A model of the OAuth 2.0 authorization-code + PKCE subsystem of the     *)
(* fitbit client library: tokenRefresher.Token, Client.AuthCodeURL and     *)
(* Client.Link, together with the token endpoint they talk to.             *)
(*                                                                         *)
(* Go strings and byte slices that the code computes on are sequences of   *)
(* byte values; values that are only passed through are TLA+ strings.      *)
(* A Go pointer is <<>> (nil) or <<v>>.                                    *)
(***************************************************************************)
EXTENDS Integers, Sequences, FiniteSets, TLC

\* The goroutines that call Token() on the one tokenRefresher.
Procs == {"g1", "g2"}

\* Total number of Token() calls started in one behaviour.
MaxCalls == 3

\* Total number of getCorrespondingUnit calls in one behaviour.
MaxUnitCalls == 2

\* Number of Link calls that wait in Exchange at the same time.
MaxLinking == 1

VARIABLES
    client,       \* the Client: applicationType, debugMode, updateTokenFunc set or nil
    singleUse,    \* token endpoint: does it invalidate a refresh token on use
    valid,        \* token endpoint: the refresh tokens it accepts
    issued,       \* token endpoint: number of tokens issued by refreshes
    lastToken,    \* tkr.lastToken
    pc,           \* where each goroutine is inside Token()
    startToken,   \* tkr.lastToken when the goroutine's current call began
    sent,         \* the url.Values of the goroutine's refresh request
    accepted,     \* did the token endpoint accept that request
    resp,         \* what retrieveToken returned to the goroutine
    hookCalls,    \* the updateTokenFunc invocations of the goroutine's call
    ret,          \* what the goroutine's last Token() call returned
    nCalls,       \* Token() calls started so far
    lastSuccess,  \* the token issued to the latest Token() call that returned success
    prevCall,     \* the Token() call that returned most recently
    heldValid,    \* did the endpoint accept tkr.lastToken's refresh token when the call began
    overlapped,   \* were the goroutines' latest calls inside Token() at the same time
    attempts,     \* refresh requests the goroutine's current call has made
    expired,      \* had tkr.lastToken's Expiry passed when the call began
    seen,         \* so far: was the response to an accepted refresh lost, did a hook
                  \* fail, were two goroutines inside Token() at the same time
    auth,         \* the client call that returned last, if an AuthCodeURL call: its
                  \* arguments and what it returned
    link,         \* the client call that returned last, if a Link call: its arguments,
                  \* its request, what Exchange gave it and what it returned
    linking,      \* the Link calls waiting in Exchange: their arguments and requests
    units,        \* the package variables UnitedStatesUnit, UnitedKingdomUnit, MetricUnit
    unitCalls     \* the getCorrespondingUnit calls so far: locale and returned pointer

vars == <<client, singleUse, valid, issued, lastToken, pc, startToken, sent,
          accepted, resp, hookCalls, ret, nCalls, lastSuccess, prevCall,
          heldValid, overlapped, attempts, expired, seen, auth, link, linking, units, unitCalls>>

\* What Token() never touches, and what AuthCodeURL and Link never touch.
unitVars == <<units, unitCalls>>
clientCalls == <<auth, link, linking, unitVars>>
refresherVars == <<client, singleUse, valid, issued, lastToken, pc, startToken,
                   sent, accepted, resp, hookCalls, ret, nCalls, lastSuccess,
                   prevCall, heldValid, overlapped, attempts, expired, seen>>

-----------------------------------------------------------------------------
\* Pointers.
Nil == <<>>
Ref(v) == <<v>>
Deref(p) == p[1]

\* Token: the k-th token of the token endpoint (0 is the one the refresher
\* was constructed with).
Token(k) ==
    [AccessToken  |-> <<"AT", k>>,
     TokenType    |-> "Bearer",
     RefreshToken |-> <<"RT", k>>,
     Expiry       |-> <<"T", k>>]

\* asOAuth2Token losing the refresh token.
asOAuth2TokenNoRefresh(t) ==
    IF t = Nil THEN Nil
    ELSE Ref([AccessToken  |-> Deref(t).AccessToken,
              TokenType    |-> Deref(t).TokenType,
              RefreshToken |-> <<"RT", -1>>,
              Expiry       |-> Deref(t).Expiry,
              raw          |-> Nil])

\* (t *Token) asOAuth2Token: nil for nil, else a new oauth2.Token with the
\* four fields copied.
asOAuth2Token(t) ==
    IF t = Nil THEN Nil
    ELSE Ref([AccessToken  |-> Deref(t).AccessToken,
              TokenType    |-> Deref(t).TokenType,
              RefreshToken |-> Deref(t).RefreshToken,
              Expiry       |-> Deref(t).Expiry,
              raw          |-> Nil])

\* Errors.
NoError == [kind |-> "nil", msg |-> ""]
ProviderError == [kind |-> "ProviderError", msg |-> "invalid_grant"]
NetworkFailure == [kind |-> "NetworkFailure", msg |-> "no response"]
PersistenceHookFailure == [kind |-> "PersistenceHookFailure", msg |-> "hook"]

\* The values a goroutine holds when it is not inside a call.
NoRequest == Nil
NoResponse == Nil
NoReturn == Nil

-----------------------------------------------------------------------------
\* The token endpoint's handling of a refresh_token grant.
RefreshAccepted(values) ==
    /\ values["grant_type"] = "refresh_token"
    /\ values["refresh_token"] \in valid

ValidAfterRefresh(values) ==
    IF singleUse
    THEN (valid \ {values["refresh_token"]}) \cup {Token(issued + 1).RefreshToken}
    ELSE valid \cup {Token(issued + 1).RefreshToken}

\* retrieveToken's result for each outcome of the request.
retrieveTokenOK(k) == [token |-> Ref(Token(k)), err |-> NoError]
retrieveTokenErr(e) == [token |-> Nil, err |-> e]

-----------------------------------------------------------------------------
\* tokenRefresher.Token(), in the steps at which other goroutines can run.

\* The values Token() posts: url.Values{grant_type, refresh_token}.
RefreshValues(tok) ==
    [grant_type |-> "refresh_token", refresh_token |-> Deref(tok).RefreshToken]

\* Token() adopting the new token before it asks the hook.
RetainedAfterAdopt(old, new, hookErr) == new

\* Token() replacing tkr.lastToken whatever the hook returned.
RetainedAfterAlways(old, new, hookErr) == new

\* Token() never adopting the new token.
RetainedAfterKeep(old, new, hookErr) == old

\* Lines 66-72: what Token() does with a hook result: the token it retains
\* and what it returns.
RetainedAfter(old, new, hookErr) ==
    IF hookErr # NoError THEN old ELSE new

\* Token() returning the new token although the hook failed.
ReturnAfterSwallow(new, hookErr) == [token |-> asOAuth2Token(new), err |-> NoError]

ReturnAfter(new, hookErr) ==
    IF hookErr # NoError
    THEN [token |-> Nil, err |-> hookErr]
    ELSE [token |-> asOAuth2Token(new), err |-> NoError]

\* The hook called with its arguments in the other order.
HookArgsSwapped(retained, token) == [old |-> token, new |-> retained]

\* Line 67: the arguments of the hook.
HookArgs(retained, token) == [old |-> retained, new |-> token]

\* The record of a call of goroutine p as it returns: what the refresher
\* held when it began, what it sent and got, its hook invocations, what the
\* refresher holds as it returns and what it returns.
Returned(p, retained, result) ==
    [startToken |-> startToken[p],
     sent       |-> sent[p],
     resp       |-> Deref(resp[p]),
     hooks      |-> hookCalls[p],
     retained   |-> retained,
     ret        |-> result]

\* A goroutine enters Token().
Call(p) ==
    /\ pc[p] = "idle"
    /\ nCalls < MaxCalls
    /\ nCalls' = nCalls + 1
    /\ pc' = [pc EXCEPT ![p] = "entered"]
    /\ startToken' = [startToken EXCEPT ![p] = lastToken]
    /\ sent' = [sent EXCEPT ![p] = NoRequest]
    /\ accepted' = [accepted EXCEPT ![p] = FALSE]
    /\ resp' = [resp EXCEPT ![p] = NoResponse]
    /\ hookCalls' = [hookCalls EXCEPT ![p] = <<>>]
    /\ ret' = [ret EXCEPT ![p] = NoReturn]
    /\ heldValid' = [heldValid EXCEPT ![p] = Deref(lastToken).RefreshToken \in valid]
    /\ overlapped' = \E q \in Procs \ {p} : pc[q] # "idle"
    /\ attempts' = [attempts EXCEPT ![p] = 0]
    /\ \E e \in BOOLEAN : expired' = [expired EXCEPT ![p] = e]
    /\ seen' = [seen EXCEPT !.concurrent = @ \/ \E q \in Procs \ {p} : pc[q] # "idle"]
    /\ UNCHANGED <<clientCalls, client, singleUse, valid, issued, lastToken,
                   lastSuccess, prevCall>>

\* Lines 52-62: the request is built from tkr.lastToken and sent.
Send(p) ==
    /\ pc[p] = "entered"
    /\ sent' = [sent EXCEPT ![p] = Ref(RefreshValues(lastToken))]
    /\ attempts' = [attempts EXCEPT ![p] = @ + 1]
    /\ pc' = [pc EXCEPT ![p] = "waiting"]
    /\ UNCHANGED <<clientCalls, seen, client, singleUse, valid, issued, lastToken, startToken,
                   accepted, resp, hookCalls, ret, nCalls, lastSuccess,
                   prevCall, heldValid, overlapped, expired>>

\* The token endpoint handles the request; the response reaches the caller
\* or is lost on the way back.
Respond(p) ==
    /\ pc[p] = "waiting"
    /\ \E delivered \in BOOLEAN :
         IF RefreshAccepted(Deref(sent[p]))
         THEN /\ issued' = issued + 1
              /\ valid' = ValidAfterRefresh(Deref(sent[p]))
              /\ accepted' = [accepted EXCEPT ![p] = TRUE]
              /\ resp' = [resp EXCEPT ![p] =
                            IF delivered THEN Ref(retrieveTokenOK(issued + 1))
                            ELSE Ref(retrieveTokenErr(NetworkFailure))]
              /\ seen' = [seen EXCEPT !.lost = @ \/ ~delivered]
         ELSE /\ UNCHANGED <<issued, valid, accepted, seen>>
              /\ resp' = [resp EXCEPT ![p] =
                            IF delivered THEN Ref(retrieveTokenErr(ProviderError))
                            ELSE Ref(retrieveTokenErr(NetworkFailure))]
    /\ pc' = [pc EXCEPT ![p] = "responded"]
    /\ UNCHANGED <<clientCalls, client, singleUse, lastToken, startToken, sent,
                   hookCalls, ret, nCalls, lastSuccess, prevCall, heldValid,
                   overlapped, attempts, expired>>

\* The request never reaches the token endpoint (transport failure or a
\* cancelled context).
TransportFail(p) ==
    /\ pc[p] = "waiting"
    /\ resp' = [resp EXCEPT ![p] = Ref(retrieveTokenErr(NetworkFailure))]
    /\ pc' = [pc EXCEPT ![p] = "responded"]
    /\ UNCHANGED <<clientCalls, seen, client, singleUse, valid, issued, lastToken, startToken,
                   sent, accepted, hookCalls, ret, nCalls, lastSuccess,
                   prevCall, heldValid, overlapped, attempts, expired>>

\* Token() falling back to the retained token when retrieveToken failed.
ReturnErrorFallback(p) ==
    /\ pc[p] = "responded"
    /\ Deref(resp[p]).err # NoError
    /\ ret' = [ret EXCEPT ![p] = Ref([token |-> asOAuth2Token(lastToken), err |-> NoError])]
    /\ pc' = [pc EXCEPT ![p] = "idle"]
    /\ prevCall' = Ref(Returned(p, lastToken,
                                [token |-> asOAuth2Token(lastToken), err |-> NoError]))
    /\ UNCHANGED <<clientCalls, seen, client, singleUse, valid, issued, lastToken, startToken,
                   sent, accepted, resp, hookCalls, nCalls, lastSuccess, heldValid,
                   overlapped, attempts, expired>>

\* Token() making a second attempt when retrieveToken failed.
ReturnErrorRetry(p) ==
    /\ pc[p] = "responded"
    /\ Deref(resp[p]).err # NoError
    /\ IF attempts[p] < 2
       THEN /\ pc' = [pc EXCEPT ![p] = "entered"]
            /\ UNCHANGED <<ret, prevCall>>
       ELSE /\ ret' = [ret EXCEPT ![p] = Ref([token |-> Nil, err |-> Deref(resp[p]).err])]
            /\ pc' = [pc EXCEPT ![p] = "idle"]
            /\ prevCall' = Ref(Returned(p, lastToken,
                                        [token |-> Nil, err |-> Deref(resp[p]).err]))
    /\ UNCHANGED <<clientCalls, seen, client, singleUse, valid, issued, lastToken, startToken,
                   sent, accepted, resp, hookCalls, nCalls, lastSuccess, heldValid,
                   overlapped, attempts, expired>>

\* Lines 63-65: retrieveToken failed.
ReturnError(p) ==
    /\ pc[p] = "responded"
    /\ Deref(resp[p]).err # NoError
    /\ ret' = [ret EXCEPT ![p] = Ref([token |-> Nil, err |-> Deref(resp[p]).err])]
    /\ pc' = [pc EXCEPT ![p] = "idle"]
    /\ prevCall' = Ref(Returned(p, lastToken, [token |-> Nil, err |-> Deref(resp[p]).err]))
    /\ UNCHANGED <<clientCalls, seen, client, singleUse, valid, issued, lastToken, startToken,
                   sent, accepted, resp, hookCalls, nCalls, lastSuccess, heldValid,
                   overlapped, attempts, expired>>

\* Lines 66-67: the hook is called with (tkr.lastToken, token); it runs the
\* caller's code, which returns nil or an error.
InvokeHook(p) ==
    /\ pc[p] = "responded"
    /\ Deref(resp[p]).err = NoError
    /\ client.updateTokenFunc
    /\ \E hookErr \in {NoError, PersistenceHookFailure} :
         /\ hookCalls' = [hookCalls EXCEPT ![p] =
                            Append(@, [args |-> HookArgs(lastToken, Deref(resp[p]).token),
                                       err |-> hookErr])]
         /\ seen' = [seen EXCEPT !.hookFailed = @ \/ hookErr # NoError]
    /\ pc' = [pc EXCEPT ![p] = "hooked"]
    /\ UNCHANGED <<clientCalls, client, singleUse, valid, issued, lastToken, startToken,
                   sent, accepted, resp, ret, nCalls, lastSuccess, prevCall,
                   heldValid, overlapped, attempts, expired>>

\* Token() writing the new token's fields into the Token tkr.lastToken points
\* to: every pointer to that Token then shows the new fields.
AfterHookInPlace(p) ==
    /\ pc[p] = "hooked"
    /\ LET hookErr == hookCalls[p][Len(hookCalls[p])].err
           new == Deref(resp[p]).token
       IN /\ lastToken' = RetainedAfter(lastToken, new, hookErr)
          /\ ret' = [ret EXCEPT ![p] = Ref(ReturnAfter(new, hookErr))]
          /\ lastSuccess' = IF hookErr = NoError THEN new ELSE lastSuccess
          /\ prevCall' = Ref(Returned(p, RetainedAfter(lastToken, new, hookErr),
                                      ReturnAfter(new, hookErr)))
          /\ startToken' = [q \in Procs |->
                              IF startToken[q] = lastToken
                              THEN RetainedAfter(lastToken, new, hookErr)
                              ELSE startToken[q]]
          /\ hookCalls' = [q \in Procs |->
                             [i \in 1..Len(hookCalls[q]) |->
                                [hookCalls[q][i] EXCEPT !.args.old =
                                   IF @ = lastToken
                                   THEN RetainedAfter(lastToken, new, hookErr)
                                   ELSE @]]]
    /\ pc' = [pc EXCEPT ![p] = "idle"]
    /\ UNCHANGED <<clientCalls, seen, client, singleUse, valid, issued, sent,
                   accepted, resp, nCalls, heldValid, overlapped, attempts, expired>>

\* Lines 67-72 after the hook returned.
AfterHook(p) ==
    /\ pc[p] = "hooked"
    /\ LET hookErr == hookCalls[p][Len(hookCalls[p])].err
           new == Deref(resp[p]).token
       IN /\ lastToken' = RetainedAfter(lastToken, new, hookErr)
          /\ ret' = [ret EXCEPT ![p] = Ref(ReturnAfter(new, hookErr))]
          /\ lastSuccess' = IF hookErr = NoError THEN new ELSE lastSuccess
          /\ prevCall' = Ref(Returned(p, RetainedAfter(lastToken, new, hookErr),
                                      ReturnAfter(new, hookErr)))
    /\ pc' = [pc EXCEPT ![p] = "idle"]
    /\ UNCHANGED <<clientCalls, seen, client, singleUse, valid, issued, startToken, sent,
                   accepted, resp, hookCalls, nCalls, heldValid, overlapped, attempts, expired>>

\* Lines 66, 71-72 with no hook configured.
ReturnNoHook(p) ==
    /\ pc[p] = "responded"
    /\ Deref(resp[p]).err = NoError
    /\ ~client.updateTokenFunc
    /\ LET new == Deref(resp[p]).token
       IN /\ lastToken' = RetainedAfter(lastToken, new, NoError)
          /\ ret' = [ret EXCEPT ![p] = Ref(ReturnAfter(new, NoError))]
          /\ lastSuccess' = new
          /\ prevCall' = Ref(Returned(p, RetainedAfter(lastToken, new, NoError),
                                      ReturnAfter(new, NoError)))
    /\ pc' = [pc EXCEPT ![p] = "idle"]
    /\ UNCHANGED <<clientCalls, seen, client, singleUse, valid, issued, startToken, sent,
                   accepted, resp, hookCalls, nCalls, heldValid, overlapped, attempts, expired>>

-----------------------------------------------------------------------------
\* crypto/sha256 and encoding/base64 as AuthCodeURL uses them.

\* 32-bit words are pairs <<high 16 bits, low 16 bits>>.
\* Bitwise exclusive-or and conjunction of 16-bit numbers, bit by bit.
Xor16(a, b) ==
    ((((((((a \div 32768) + (b \div 32768)) % 2) * 32768)
     + ((((a \div 16384) + (b \div 16384)) % 2) * 16384))
     + (((((a \div 8192) + (b \div 8192)) % 2) * 8192)
     + ((((a \div 4096) + (b \div 4096)) % 2) * 4096)))
     + ((((((a \div 2048) + (b \div 2048)) % 2) * 2048)
     + ((((a \div 1024) + (b \div 1024)) % 2) * 1024))
     + (((((a \div 512) + (b \div 512)) % 2) * 512)
     + ((((a \div 256) + (b \div 256)) % 2) * 256))))
     + (((((((a \div 128) + (b \div 128)) % 2) * 128)
     + ((((a \div 64) + (b \div 64)) % 2) * 64))
     + (((((a \div 32) + (b \div 32)) % 2) * 32)
     + ((((a \div 16) + (b \div 16)) % 2) * 16)))
     + ((((((a \div 8) + (b \div 8)) % 2) * 8)
     + ((((a \div 4) + (b \div 4)) % 2) * 4))
     + (((((a \div 2) + (b \div 2)) % 2) * 2)
     + ((((a \div 1) + (b \div 1)) % 2) * 1)))))

And16(a, b) ==
    ((((((((a \div 32768) % 2) * ((b \div 32768) % 2)) * 32768)
     + ((((a \div 16384) % 2) * ((b \div 16384) % 2)) * 16384))
     + (((((a \div 8192) % 2) * ((b \div 8192) % 2)) * 8192)
     + ((((a \div 4096) % 2) * ((b \div 4096) % 2)) * 4096)))
     + ((((((a \div 2048) % 2) * ((b \div 2048) % 2)) * 2048)
     + ((((a \div 1024) % 2) * ((b \div 1024) % 2)) * 1024))
     + (((((a \div 512) % 2) * ((b \div 512) % 2)) * 512)
     + ((((a \div 256) % 2) * ((b \div 256) % 2)) * 256))))
     + (((((((a \div 128) % 2) * ((b \div 128) % 2)) * 128)
     + ((((a \div 64) % 2) * ((b \div 64) % 2)) * 64))
     + (((((a \div 32) % 2) * ((b \div 32) % 2)) * 32)
     + ((((a \div 16) % 2) * ((b \div 16) % 2)) * 16)))
     + ((((((a \div 8) % 2) * ((b \div 8) % 2)) * 8)
     + ((((a \div 4) % 2) * ((b \div 4) % 2)) * 4))
     + (((((a \div 2) % 2) * ((b \div 2) % 2)) * 2)
     + ((((a \div 1) % 2) * ((b \div 1) % 2)) * 1)))))

WXor(x, y) == <<Xor16(x[1], y[1]), Xor16(x[2], y[2])>>
WAnd(x, y) == <<And16(x[1], y[1]), And16(x[2], y[2])>>
WNot(x) == <<65535 - x[1], 65535 - x[2]>>
WAdd(x, y) ==
    LET lo == x[2] + y[2]
        hi == x[1] + y[1] + (lo \div 65536)
    IN <<hi % 65536, lo % 65536>>

\* Rotate right by n, 0 < n < 32.
RotR(x, n) ==
    LET y == IF n >= 16 THEN <<x[2], x[1]>> ELSE x
        m == IF n >= 16 THEN n - 16 ELSE n
    IN IF m = 0 THEN y
       ELSE <<(y[1] \div (2^m)) + ((y[2] % (2^m)) * (2^(16 - m))),
              (y[2] \div (2^m)) + ((y[1] % (2^m)) * (2^(16 - m)))>>

\* Shift right by n, 0 < n < 16.
ShR(x, n) ==
    <<x[1] \div (2^n), (x[2] \div (2^n)) + ((x[1] % (2^n)) * (2^(16 - n)))>>

BigSigma0(x) == WXor(WXor(RotR(x, 2), RotR(x, 13)), RotR(x, 22))
BigSigma1(x) == WXor(WXor(RotR(x, 6), RotR(x, 11)), RotR(x, 25))
SmallSigma0(x) == WXor(WXor(RotR(x, 7), RotR(x, 18)), ShR(x, 3))
SmallSigma1(x) == WXor(WXor(RotR(x, 17), RotR(x, 19)), ShR(x, 10))
Ch(x, y, z) == WXor(WAnd(x, y), WAnd(WNot(x), z))
Maj(x, y, z) == WXor(WXor(WAnd(x, y), WAnd(x, z)), WAnd(y, z))

SHA256K ==
    <<<<17034, 12184>>, <<28983, 17553>>, <<46528, 64463>>, <<59829, 56229>>,
      <<14678, 49755>>, <<23025, 4593>>, <<37439, 33444>>, <<43804, 24277>>,
      <<55303, 43672>>, <<4739, 23297>>, <<9265, 34238>>, <<21772, 32195>>,
      <<29374, 23924>>, <<32990, 45566>>, <<39900, 1703>>, <<49563, 61812>>,
      <<58523, 27073>>, <<61374, 18310>>, <<4033, 40390>>, <<9228, 41420>>,
      <<11753, 11375>>, <<19060, 33962>>, <<23728, 43484>>, <<30457, 35034>>,
      <<38974, 20818>>, <<43057, 50797>>, <<45059, 10184>>, <<48985, 32711>>,
      <<50912, 3059>>, <<54695, 37191>>, <<1738, 25425>>, <<5161, 10599>>,
      <<10167, 2693>>, <<11803, 8504>>, <<19756, 28156>>, <<21304, 3347>>,
      <<25866, 29524>>, <<30314, 2747>>, <<33218, 51502>>, <<37490, 11397>>,
      <<41663, 59553>>, <<43034, 26187>>, <<49739, 35696>>, <<51052, 20899>>,
      <<53650, 59417>>, <<54937, 1572>>, <<62478, 13701>>, <<4202, 41072>>,
      <<6564, 49430>>, <<7735, 27656>>, <<10056, 30540>>, <<13488, 48309>>,
      <<14620, 3251>>, <<20184, 43594>>, <<23452, 51791>>, <<26670, 28659>>,
      <<29839, 33518>>, <<30885, 25455>>, <<33992, 30740>>, <<36039, 520>>,
      <<37054, 65530>>, <<42064, 27883>>, <<48889, 41975>>, <<50801, 30962>>>>

-----------------------------------------------------------------------------
\* Locales and units.

LocaleAustralia == "en_AU"
LocaleFrance == "fr_FR"
LocaleGermany == "de_DE"
LocaleJapan == "ja_JP"
LocaleNewZealand == "en_NZ"
LocaleSpain == "es_ES"
LocaleUnitedKingdom == "en_GB"
LocaleUnitedStates == "en_US"

\* The Unit each package variable points to when the package is initialised.
UnitedStatesUnit ==
    Ref([Distance         |-> "mile",
         Elevation        |-> "ft",
         Height           |-> "in",
         Weight           |-> "lb",
         BodyMeasurements |-> "in",
         Liquids          |-> "fl oz",
         BloodGlucose     |-> "mg/dL"])

UnitedKingdomUnit ==
    Ref([Distance         |-> "km",
         Elevation        |-> "m",
         Height           |-> "cm",
         Weight           |-> "st",
         BodyMeasurements |-> "cm",
         Liquids          |-> "ml",
         BloodGlucose     |-> "mmol/l"])

MetricUnit ==
    Ref([Distance         |-> "km",
         Elevation        |-> "m",
         Height           |-> "cm",
         Weight           |-> "kg",
         BodyMeasurements |-> "cm",
         Liquids          |-> "ml",
         BloodGlucose     |-> "mmol/l"])

UnitTables ==
    [UnitedStatesUnit  |-> UnitedStatesUnit,
     UnitedKingdomUnit |-> UnitedKingdomUnit,
     MetricUnit        |-> MetricUnit]

\* getCorrespondingUnit matching the locale whatever its letter case.
getCorrespondingUnitFold(locale) ==
    CASE locale \in {LocaleUnitedStates, "en_us"} -> UnitedStatesUnit
      [] locale \in {LocaleUnitedKingdom, "EN_GB"} -> UnitedKingdomUnit
      [] OTHER -> MetricUnit

\* The switch of getCorrespondingUnit: string equality with the two
\* constants, MetricUnit by default.
getCorrespondingUnit(locale) ==
    CASE locale = LocaleUnitedStates -> UnitedStatesUnit
      [] locale = LocaleUnitedKingdom -> UnitedKingdomUnit
      [] OTHER -> MetricUnit

\* Locale values a caller passes: the eight constants, the empty locale, and
\* strings that are none of the constants.
Locales ==
    {LocaleAustralia, LocaleFrance, LocaleGermany, LocaleJapan, LocaleNewZealand,
     LocaleSpain, LocaleUnitedKingdom, LocaleUnitedStates,
     "", "en_us", "EN_GB", "en_US ", "en", "xx_XX"}

\* A call of getCorrespondingUnit.
GetCorrespondingUnit(locale) ==
    /\ Len(unitCalls) < MaxUnitCalls
    /\ unitCalls' = Append(unitCalls, [locale |-> locale,
                                       ret |-> getCorrespondingUnit(locale)])
    /\ UNCHANGED <<units, refresherVars, auth, link, linking>>

SHA256Init ==
    <<<<27145, 58983>>, <<47975, 44677>>, <<15470, 62322>>, <<42319, 62778>>,
      <<20750, 21119>>, <<39685, 26764>>, <<8067, 55723>>, <<23520, 52505>>>>

\* The message followed by 0x80, zero bytes up to 56 mod 64, and the bit
\* length as 8 big-endian bytes.
Zeros(n) == [i \in 1..n |-> 0]

Sha256Pad(msg) ==
    LET len == Len(msg)
        nz == (119 - (len % 64)) % 64
        bits == len * 8
    IN msg \o <<128>> \o Zeros(nz) \o <<0, 0, 0, 0>>
           \o <<(bits \div 16777216) % 256, (bits \div 65536) % 256,
                (bits \div 256) % 256, bits % 256>>

\* The 16 big-endian words of the block that starts at byte offset off.
BlockWords(m, off) ==
    <<>> \o [i \in 1..16 |->
                <<(m[off + (4 * i) - 3] * 256) + m[off + (4 * i) - 2],
                  (m[off + (4 * i) - 1] * 256) + m[off + (4 * i)]>>]

\* The message schedule: w extended by the words lo..hi, in order.
ScheduleWord(w, t) ==
    WAdd(WAdd(SmallSigma1(w[t - 2]), w[t - 7]),
         WAdd(SmallSigma0(w[t - 15]), w[t - 16]))

RECURSIVE ScheduleWords(_, _, _)
ScheduleWords(w, lo, hi) ==
    IF lo = hi THEN Append(w, ScheduleWord(w, lo))
    ELSE LET mid == (lo + hi) \div 2
             first == ScheduleWords(w, lo, mid)
         IN IF Len(first) = mid THEN ScheduleWords(first, mid + 1, hi) ELSE first

Schedule(w) == ScheduleWords(w, 17, 64)

Sha256Round(s, k, w) ==
    LET t1 == WAdd(WAdd(WAdd(s[8], BigSigma1(s[5])), Ch(s[5], s[6], s[7])),
                   WAdd(k, w))
        t2 == WAdd(BigSigma0(s[1]), Maj(s[1], s[2], s[3]))
    IN <<WAdd(t1, t2), s[1], s[2], s[3], WAdd(s[4], t1), s[5], s[6], s[7]>>

\* The rounds lo..hi, in order.
RECURSIVE Sha256Rounds(_, _, _, _)
Sha256Rounds(s, w, lo, hi) ==
    IF lo = hi THEN Sha256Round(s, SHA256K[lo], w[lo])
    ELSE LET mid == (lo + hi) \div 2
             first == Sha256Rounds(s, w, lo, mid)
         IN IF Len(first) = 8 THEN Sha256Rounds(first, w, mid + 1, hi) ELSE first

\* The 64 rounds over a schedule w, which is computed before they start.
Sha256Compress(h, w) ==
    IF Len(w) = 64 THEN Sha256Rounds(h, w, 1, 64) ELSE h

\* The hash value h after a block whose rounds ended in state s.
Sha256Add(h, s) ==
    IF Len(s) = 8
    THEN <<WAdd(h[1], s[1]), WAdd(h[2], s[2]), WAdd(h[3], s[3]), WAdd(h[4], s[4]),
           WAdd(h[5], s[5]), WAdd(h[6], s[6]), WAdd(h[7], s[7]), WAdd(h[8], s[8])>>
    ELSE h

Sha256Block(h, m, off) ==
    Sha256Add(h, Sha256Compress(h, Schedule(BlockWords(m, off))))

RECURSIVE Sha256Blocks(_, _, _)
Sha256Blocks(h, m, off) ==
    IF off >= Len(m) THEN h
    ELSE LET n == Sha256Block(h, m, off)
         IN IF Len(n) = 8 THEN Sha256Blocks(n, m, off + 64) ELSE n

\* The four big-endian bytes of a word.
WordBytes(w) == <<w[1] \div 256, w[1] % 256, w[2] \div 256, w[2] % 256>>

\* The digest bytes of the final hash value h.
Sha256Digest(h) ==
    WordBytes(h[1]) \o WordBytes(h[2]) \o WordBytes(h[3]) \o WordBytes(h[4])
    \o WordBytes(h[5]) \o WordBytes(h[6]) \o WordBytes(h[7]) \o WordBytes(h[8])

\* The blocks of a padded message m, hashed in order.
Sha256Write(m) ==
    IF Len(m) % 64 = 0 THEN Sha256Blocks(SHA256Init, m, 0) ELSE SHA256Init

\* sha256.Sum256: the 32 digest bytes of data.
Sum256(data) == Sha256Digest(Sha256Write(Sha256Pad(data)))

\* The URL-safe base64 alphabet: A-Z, a-z, 0-9, '-', '_'.
Base64URLChar(v) ==
    IF v < 26 THEN 65 + v
    ELSE IF v < 52 THEN 97 + (v - 26)
    ELSE IF v < 62 THEN 48 + (v - 52)
    ELSE IF v = 62 THEN 45
    ELSE 95

\* base64.RawURLEncoding.EncodeToString: the bits of src in groups of six,
\* the last group filled with zero bits, and no padding.
EncodeToString(src) ==
    LET n == Len(src)
        Byte(b) == IF b <= n THEN src[b] ELSE 0
        Group(j) ==
            LET b == ((6 * (j - 1)) \div 8) + 1
                o == (6 * (j - 1)) % 8
            IN (((Byte(b) * 256) + Byte(b + 1)) \div (2^(10 - o))) % 64
    IN <<>> \o [j \in 1..(((n * 8) + 5) \div 6) |-> Base64URLChar(Group(j))]
-----------------------------------------------------------------------------
\* The package's constants and variables.
CodeChallengeMethod == "S256"
NumberLetters == <<48, 49, 50, 51, 52, 53, 54, 55, 56, 57>>
UppercaseAlphabetLetters ==
    <<65, 66, 67, 68, 69, 70, 71, 72, 73, 74, 75, 76, 77,
      78, 79, 80, 81, 82, 83, 84, 85, 86, 87, 88, 89, 90>>
LowercaseAlphabetLetters ==
    <<97, 98, 99, 100, 101, 102, 103, 104, 105, 106, 107, 108, 109,
      110, 111, 112, 113, 114, 115, 116, 117, 118, 119, 120, 121, 122>>
CSRFStateLength == 128
CodeVerifierLength == 128

\* randomBytes(n): n characters, each a digit or a letter, from the secure
\* random source. The model draws the source's output from NumSamples
\* streams.
NumSamples == 2
Letters == NumberLetters \o UppercaseAlphabetLetters \o LowercaseAlphabetLetters
RandomSample(k, n) ==
    <<>> \o [i \in 1..n |-> Letters[(((i * k) + k) % Len(Letters)) + 1]]
randomBytes(n) == {RandomSample(k, n) : k \in 1..NumSamples}

\* The oauth2.Config of every Client, and the Fitbit endpoints.
ClientID == "23ABCD"
Scopes == <<"activity", "heartrate">>
RedirectURL == ""
AuthURL == "https://www.fitbit.com/oauth2/authorize"
TokenURL == "https://api.fitbit.com/oauth2/token"
Clients ==
    [applicationType : {"ServerApplication", "ClientApplication"},
     debugMode : BOOLEAN,
     updateTokenFunc : BOOLEAN]

\* url.Values.Set.
Set(v, key, value) ==
    [k \in (DOMAIN v) \cup {key} |-> IF k = key THEN value ELSE v[k]]

\* oauth2.SetAuthURLParam options applied in order to the values.
RECURSIVE ApplyOpts(_, _)
ApplyOpts(v, opts) ==
    IF opts = <<>> THEN v
    ELSE ApplyOpts(Set(v, opts[1][1], opts[1][2]), Tail(opts))

\* oauth2.ApprovalForce.
ApprovalForce == <<"prompt", "consent">>

\* The challenge encoded with base64.URLEncoding, which pads.
CodeChallengePadded(codeVerifier) == EncodeToString(Sum256(codeVerifier)) \o <<61>>

\* Lines 90-91: the code challenge of a code verifier.
CodeChallenge(codeVerifier) == EncodeToString(Sum256(codeVerifier))

\* The challenges of the verifiers randomBytes can return, computed once.
RECURSIVE ChallengeList(_)
ChallengeList(n) ==
    IF n = 0 THEN <<>>
    ELSE Append(ChallengeList(n - 1),
                <<RandomSample(n, CodeVerifierLength),
                  CodeChallenge(RandomSample(n, CodeVerifierLength))>>)
Challenges == ChallengeList(NumSamples)
ChallengeOf(codeVerifier) ==
    LET k == CHOOSE j \in 1..Len(Challenges) : Challenges[j][1] = codeVerifier
    IN Challenges[k][2]

\* oauth2.Config.AuthCodeURL: the query parameters of the URL it builds.
ConfigAuthCodeURL(state, opts) ==
    LET v0 == [response_type |-> "code", client_id |-> ClientID]
        v1 == IF RedirectURL # "" THEN Set(v0, "redirect_uri", RedirectURL) ELSE v0
        v2 == IF Len(Scopes) > 0 THEN Set(v1, "scope", Scopes) ELSE v1
        v3 == IF state # <<>> THEN Set(v2, "state", state) ELSE v2
    IN [endpoint |-> AuthURL, query |-> ApplyOpts(v3, opts)]

\* AuthCodeURL forcing the consent screen in every mode.
AuthCodeURLReturnForce(c, redirectURI, state, codeVerifier, codeChallenge) ==
    [url |-> ConfigAuthCodeURL(state,
                <<<<"code_challenge", codeChallenge>>,
                  <<"code_challenge_method", CodeChallengeMethod>>,
                  <<"redirect_uri", redirectURI>>, ApprovalForce>>),
     state |-> state,
     codeVerifier |-> codeVerifier]

\* Client.AuthCodeURL, lines 92-102, given what randomBytes returned and the
\* challenge of lines 90-91.
AuthCodeURLReturn(c, redirectURI, state, codeVerifier, codeChallenge) ==
    LET opts == <<<<"code_challenge", codeChallenge>>,
                  <<"code_challenge_method", CodeChallengeMethod>>,
                  <<"redirect_uri", redirectURI>>>>
                \o (IF c.debugMode THEN <<ApprovalForce>> ELSE <<>>)
    IN [url |-> ConfigAuthCodeURL(state, opts),
        state |-> state,
        codeVerifier |-> codeVerifier]

\* The redirect URIs, authorization codes a caller passes.
RedirectURIs == {"https://app/callback", "https://app/other"}
Codes == {"abc123"}

AuthCodeURL(redirectURI) ==
    /\ \E state \in randomBytes(CSRFStateLength),
          codeVerifier \in randomBytes(CodeVerifierLength) :
         auth' = Ref([redirectURI |-> redirectURI,
                      requests |-> <<>>,
                      ret |-> AuthCodeURLReturn(client, redirectURI, state,
                                 codeVerifier, ChallengeOf(codeVerifier))])
    /\ link' = Nil
    /\ UNCHANGED <<linking, refresherVars, unitVars>>

-----------------------------------------------------------------------------
\* Client.Link.

\* JSON values of a token response's extra fields, as interface{} values.
JSONString(s) == [type |-> "string", val |-> s]
JSONNumber(n) == [type |-> "float64", val |-> n]
JSONNil == [type |-> "nil", val |-> 0]

\* oauth2.Token.Extra.
Extra(token, key) ==
    IF key \in DOMAIN token.raw THEN token.raw[key] ELSE JSONNil

\* strings.FieldsFunc-like splitting, which drops the empty pieces.
SplitNonEmpty(s, sep) ==
    LET RECURSIVE Parts(_)
        Parts(t) ==
            IF \E i \in 1..Len(t) : t[i] = sep
            THEN LET i == CHOOSE j \in 1..Len(t) :
                             /\ t[j] = sep
                             /\ \A h \in 1..(j - 1) : t[h] # sep
                 IN <<SubSeq(t, 1, i - 1)>> \o Parts(SubSeq(t, i + 1, Len(t)))
            ELSE <<t>>
    IN SelectSeq(Parts(s), LAMBDA x : x # <<>>)

\* strings.Split(s, sep) for a one-byte separator.
RECURSIVE Split(_, _)
Split(s, sep) ==
    IF \E i \in 1..Len(s) : s[i] = sep
    THEN LET i == CHOOSE j \in 1..Len(s) :
                     /\ s[j] = sep
                     /\ \A h \in 1..(j - 1) : s[h] # sep
         IN <<SubSeq(s, 1, i - 1)>> \o Split(SubSeq(s, i + 1, Len(s)), sep)
    ELSE <<s>>

\* newScope: the Scope of a list of names.
newScope(names) == Ref({names[i] : i \in 1..Len(names)})

\* The errors of oauth2.Config.Exchange.
RetrieveError(status, body) ==
    [kind |-> "oauth2.RetrieveError", status |-> status, body |-> body]
TransportError == [kind |-> "url.Error", status |-> 0, body |-> Nil]
Canceled == [kind |-> "context.Canceled", status |-> 0, body |-> Nil]
IsRetrieveError(err) == err.kind = "oauth2.RetrieveError"

\* Response bodies of the token endpoint's error responses.
StructuredBody ==
    Ref([structured |-> TRUE, errorType |-> "invalid_grant",
         message |-> "Authorization code invalid"])
GarbageBody == Ref([structured |-> FALSE, errorType |-> "", message |-> ""])

\* parseError: the structured provider error of a response, nil if the body
\* is not one.
parseError(status, body) ==
    IF body # Nil /\ Deref(body).structured
    THEN Ref([kind |-> "ProviderError", status |-> status,
              errorType |-> Deref(body).errorType,
              message |-> Deref(body).message])
    ELSE Nil

\* fmt.Errorf("fitbit(oauth2): cannot fetch token: %w", e).
CannotFetchToken(e) ==
    [kind |-> "wrapError", msg |-> "fitbit(oauth2): cannot fetch token", cause |-> e]

\* Link adding client_id for every application type.
LinkOptsAlwaysClientID(c, codeVerifier, reqURIString) ==
    <<<<"code_verifier", codeVerifier>>, <<"redirect_uri", reqURIString>>,
      <<"client_id", ClientID>>>>

\* Lines 108-116: the parameters Link passes to Exchange.
LinkOpts(c, codeVerifier, reqURIString) ==
    <<<<"code_verifier", codeVerifier>>, <<"redirect_uri", reqURIString>>>>
    \o (IF c.applicationType = "ServerApplication"
        THEN <<<<"client_id", ClientID>>>>
        ELSE <<>>)

\* oauth2.Config.Exchange: the values of its token request.
ExchangeValues(code, opts) ==
    LET v0 == [grant_type |-> "authorization_code", code |-> code]
        v1 == IF RedirectURL # "" THEN Set(v0, "redirect_uri", RedirectURL) ELSE v0
    IN ApplyOpts(v1, opts)

\* Link wrapping Exchange's error without parsing the response.
LinkErrorUnparsed(err) == CannotFetchToken(err)

\* Lines 118-125: Link's error for a failed exchange.
LinkError(err) ==
    IF IsRetrieveError(err) /\ parseError(err.status, err.body) # Nil
    THEN CannotFetchToken(Deref(parseError(err.status, err.body)))
    ELSE CannotFetchToken(err)

\* Lines 126-135: the LinkResponse of a successful exchange; the type
\* assertions panic on a value that is not a string.
LinkPanics(token) ==
    \/ Extra(token, "user_id").type # "string"
    \/ Extra(token, "scope").type # "string"

LinkResponse(token) ==
    [UserID |-> Extra(token, "user_id").val,
     Scope  |-> newScope(Split(Extra(token, "scope").val, 32)),
     Token  |-> Ref([AccessToken  |-> token.AccessToken,
                     TokenType    |-> token.TokenType,
                     RefreshToken |-> token.RefreshToken,
                     Expiry       |-> token.Expiry])]

\* Lines 117-135: what Link does with Exchange's result.
LinkReturn(exchanged) ==
    IF exchanged.err # NoError
    THEN [panic |-> FALSE, resp |-> Nil, err |-> LinkError(exchanged.err)]
    ELSE IF LinkPanics(Deref(exchanged.token))
    THEN [panic |-> TRUE, resp |-> Nil, err |-> NoError]
    ELSE [panic |-> FALSE, resp |-> Ref(LinkResponse(Deref(exchanged.token))),
          err |-> NoError]

\* What the token endpoint can answer to an authorization_code grant.
UserIDs == {JSONString("U1"), JSONNil, JSONNumber(7)}
ScopeStrings ==
    {<<97, 32, 104>>, <<97>>, <<>>, <<97, 32, 32, 104>>, <<32, 97>>}
ScopeValues == {JSONString(s) : s \in ScopeStrings} \cup {JSONNil, JSONNumber(1)}
RawFields(u, s) ==
    IF u # JSONNil /\ s # JSONNil THEN [user_id |-> u, scope |-> s]
    ELSE IF u # JSONNil THEN [user_id |-> u]
    ELSE IF s # JSONNil THEN [scope |-> s]
    ELSE <<>>
ExtraFields == {RawFields(u, s) : u \in UserIDs, s \in ScopeValues}
ExchangedToken(raw) ==
    [AccessToken |-> "AT1", TokenType |-> "Bearer", RefreshToken |-> "RT1",
     Expiry |-> 3600, raw |-> raw]
ExchangeResults ==
    {[token |-> Ref(ExchangedToken(raw)), err |-> NoError] : raw \in ExtraFields}
    \cup {[token |-> Nil, err |-> e] :
            e \in {RetrieveError(400, StructuredBody), RetrieveError(502, GarbageBody),
                   RetrieveError(401, Nil), TransportError, Canceled}}

\* Lines 108-117 up to the request: Link builds the options and Exchange posts
\* the authorization_code grant; Link then waits for the token endpoint.
Link(code, codeVerifier, reqURIString) ==
    /\ Len(linking) < MaxLinking
    /\ linking' = Append(linking,
                         [code |-> code,
                          codeVerifier |-> codeVerifier,
                          reqURIString |-> reqURIString,
                          requests |-> <<ExchangeValues(code,
                                           LinkOpts(client, codeVerifier, reqURIString))>>])
    /\ UNCHANGED <<auth, link, refresherVars, unitVars>>

\* The calls that still wait when the i-th one goes on.
StillLinking(i) ==
    [k \in 1..(Len(linking) - 1) |-> IF k < i THEN linking[k] ELSE linking[k + 1]]

\* Link keeping the token it obtained as the refresher's token.
LinkWithPersisting(exchanged) ==
    /\ \E i \in 1..Len(linking) :
         /\ link' = Ref([code |-> linking[i].code,
                         codeVerifier |-> linking[i].codeVerifier,
                         reqURIString |-> linking[i].reqURIString,
                         requests |-> linking[i].requests,
                         exchanged |-> exchanged,
                         ret |-> LinkReturn(exchanged)])
         /\ linking' = StillLinking(i)
    /\ lastToken' = IF exchanged.err = NoError THEN Ref(Token(issued + 1)) ELSE lastToken
    /\ auth' = Nil
    /\ UNCHANGED <<client, singleUse, valid, issued, pc, startToken, sent, accepted,
                   resp, hookCalls, ret, nCalls, lastSuccess, prevCall, heldValid,
                   overlapped, attempts, expired, seen, unitVars>>

\* Lines 117-135: Exchange returns exchanged (the answer, a transport error
\* or a cancelled context) to one of the waiting calls, and Link wraps the
\* error or builds the LinkResponse.
LinkWith(exchanged) ==
    /\ \E i \in 1..Len(linking) :
         /\ link' = Ref([code |-> linking[i].code,
                         codeVerifier |-> linking[i].codeVerifier,
                         reqURIString |-> linking[i].reqURIString,
                         requests |-> linking[i].requests,
                         exchanged |-> exchanged,
                         ret |-> LinkReturn(exchanged)])
         /\ linking' = StillLinking(i)
    /\ auth' = Nil
    /\ UNCHANGED <<refresherVars, unitVars>>

-----------------------------------------------------------------------------
Init ==
    /\ client \in Clients
    /\ singleUse \in BOOLEAN
    /\ valid = {Token(0).RefreshToken}
    /\ issued = 0
    /\ lastToken = Ref(Token(0))
    /\ pc = [p \in Procs |-> "idle"]
    /\ startToken = [p \in Procs |-> Ref(Token(0))]
    /\ sent = [p \in Procs |-> NoRequest]
    /\ accepted = [p \in Procs |-> FALSE]
    /\ resp = [p \in Procs |-> NoResponse]
    /\ hookCalls = [p \in Procs |-> <<>>]
    /\ ret = [p \in Procs |-> NoReturn]
    /\ nCalls = 0
    /\ lastSuccess = Ref(Token(0))
    /\ prevCall = Nil
    /\ heldValid = [p \in Procs |-> TRUE]
    /\ overlapped = FALSE
    /\ attempts = [p \in Procs |-> 0]
    /\ expired = [p \in Procs |-> FALSE]
    /\ seen = [lost |-> FALSE, hookFailed |-> FALSE, concurrent |-> FALSE]
    /\ auth = Nil
    /\ link = Nil
    /\ linking = <<>>
    /\ units = UnitTables
    /\ unitCalls = <<>>

\* Token() called from any goroutine at any time.
TokenNext ==
    \E p \in Procs :
        \/ Call(p)
        \/ Send(p)
        \/ Respond(p)
        \/ TransportFail(p)
        \/ ReturnError(p)
        \/ InvokeHook(p)
        \/ AfterHook(p)
        \/ ReturnNoHook(p)

\* Token() calls serialized by the caller: a call begins only when no other
\* call is inside Token().
SerialNext ==
    \E p \in Procs :
        \/ (\A q \in Procs : pc[q] = "idle") /\ Call(p)
        \/ Send(p)
        \/ Respond(p)
        \/ TransportFail(p)
        \/ ReturnError(p)
        \/ InvokeHook(p)
        \/ AfterHook(p)
        \/ ReturnNoHook(p)

\* The calls on the Client itself.
ClientNext ==
    \/ \E redirectURI \in RedirectURIs : AuthCodeURL(redirectURI)
    \/ \E code \in Codes, codeVerifier \in randomBytes(CodeVerifierLength),
          reqURIString \in RedirectURIs :
            Link(code, codeVerifier, reqURIString)
    \/ \E exchanged \in ExchangeResults : LinkWith(exchanged)

\* Client calls made while one goroutine calls Token(): the goroutine's
\* steps, AuthCodeURL, and Link with an exchange that succeeds, one that the
\* provider rejects and one that gets no response.
FrameProcs == {"g1"}
FrameURIs == {"https://app/callback"}
FrameExchanges ==
    {[token |-> Ref(ExchangedToken(RawFields(JSONString("U1"),
                                             JSONString(<<97, 32, 104>>)))),
      err |-> NoError],
     [token |-> Nil, err |-> RetrieveError(400, StructuredBody)],
     [token |-> Nil, err |-> TransportError]}
FrameNext ==
    \/ \E p \in FrameProcs :
          \/ Call(p)
          \/ Send(p)
          \/ Respond(p)
          \/ TransportFail(p)
          \/ ReturnError(p)
          \/ InvokeHook(p)
          \/ AfterHook(p)
          \/ ReturnNoHook(p)
    \/ \E redirectURI \in FrameURIs : AuthCodeURL(redirectURI)
    \/ \E code \in Codes, codeVerifier \in randomBytes(CodeVerifierLength),
          reqURIString \in FrameURIs :
            Link(code, codeVerifier, reqURIString)
    \/ \E exchanged \in FrameExchanges : LinkWith(exchanged)

\* The calls of getCorrespondingUnit.
UnitNext == \E locale \in Locales : GetCorrespondingUnit(locale)

\* Every operation of the package.
Next == TokenNext \/ ClientNext \/ UnitNext

Spec == Init /\ [][Next]_vars
SpecToken == Init /\ [][TokenNext]_vars
SpecSerial == Init /\ [][SerialNext]_vars
SpecClient == Init /\ [][ClientNext]_vars
SpecFrame == Init /\ [][FrameNext]_vars
SpecUnit == Init /\ [][UnitNext]_vars

-----------------------------------------------------------------------------
\* Properties of tokenRefresher.Token().

\* The call obtained a new token and the hook returned an error.
HookFailed(c) ==
    /\ c.resp.err = NoError
    /\ Len(c.hooks) > 0
    /\ c.hooks[Len(c.hooks)].err # NoError

\* The refresh request succeeded and the hook is absent or returned nil.
Succeeded(c) ==
    /\ c.resp.err = NoError
    /\ \/ ~client.updateTokenFunc
       \/ Len(c.hooks) = 1 /\ c.hooks[1].err = NoError

\* The goroutines whose request is on its way or answered.
InCall(q) == pc[q] # "idle" /\ sent[q] # NoRequest

\* C1: with serialized calls, a Token() call whose refresh request succeeded
\* and whose hook returned an error returns a nil token and a non-nil error,
\* leaves tkr.lastToken the token it was when the call began, and the next
\* call sends that token's refresh_token again.
C1_HookFailureKeepsLastToken ==
    (prevCall # Nil /\ HookFailed(Deref(prevCall))) =>
        LET c == Deref(prevCall)
        IN /\ c.ret.token = Nil
           /\ c.ret.err # NoError
           /\ c.retained = c.startToken
           /\ lastToken = c.startToken
           /\ \A q \in Procs :
                InCall(q) => Deref(sent[q])["refresh_token"]
                               = Deref(c.startToken).RefreshToken

C1_Witness ==
    /\ prevCall # Nil
    /\ HookFailed(Deref(prevCall))
    /\ \E q \in Procs : pc[q] = "waiting"

\* C2: with serialized calls, a Token() call that succeeds leaves
\* tkr.lastToken the newly issued token and returns a token with that
\* token's access token, token type, refresh token and expiry; and every
\* call sends the refresh token of the token issued to the latest
\* successful call (of the initial token if none succeeded).
C2_SuccessAdoptsNewToken ==
    /\ (prevCall # Nil /\ Succeeded(Deref(prevCall))) =>
          LET c == Deref(prevCall)
          IN /\ c.retained = c.resp.token
             /\ lastToken = c.resp.token
             /\ c.ret.err = NoError
             /\ c.ret.token # Nil
             /\ Deref(c.ret.token).AccessToken = Deref(lastToken).AccessToken
             /\ Deref(c.ret.token).TokenType = Deref(lastToken).TokenType
             /\ Deref(c.ret.token).RefreshToken = Deref(lastToken).RefreshToken
             /\ Deref(c.ret.token).Expiry = Deref(lastToken).Expiry
    /\ \A q \in Procs :
          InCall(q) =>
             /\ Deref(sent[q])["grant_type"] = "refresh_token"
             /\ Deref(sent[q])["refresh_token"] = Deref(lastSuccess).RefreshToken

C2_Witness ==
    /\ prevCall # Nil
    /\ Succeeded(Deref(prevCall))
    /\ lastSuccess # Ref(Token(0))
    /\ \E q \in Procs : pc[q] = "waiting"

\* C3: with a hook configured and serialized calls, a Token() call invokes
\* the hook once if its refresh request succeeded and never if it failed;
\* the invocation comes after the response, before the call returns and
\* before tkr.lastToken is replaced; its arguments are the token retained
\* before the refresh and the newly issued token.
C3_HookOncePerSuccessfulRefresh ==
    client.updateTokenFunc =>
        /\ prevCall # Nil =>
              LET c == Deref(prevCall)
              IN /\ Len(c.hooks) = (IF c.resp.err = NoError THEN 1 ELSE 0)
                 /\ Len(c.hooks) = 1 =>
                       c.hooks[1].args = [old |-> c.startToken, new |-> c.resp.token]
        /\ \A p \in Procs :
              /\ pc[p] \in {"entered", "waiting", "responded"} => hookCalls[p] = <<>>
              /\ pc[p] = "hooked" =>
                    /\ Len(hookCalls[p]) = 1
                    /\ resp[p] # NoResponse
                    /\ Deref(resp[p]).err = NoError
                    /\ ret[p] = NoReturn
                    /\ lastToken = startToken[p]
                    /\ lastToken # Deref(resp[p]).token
                    /\ hookCalls[p][1].args
                         = [old |-> startToken[p], new |-> Deref(resp[p]).token]

C3_Witness ==
    /\ client.updateTokenFunc
    /\ \E p \in Procs : pc[p] = "hooked" /\ startToken[p] # Ref(Token(0))
    /\ prevCall # Nil

\* C4: tkr.lastToken changes only in the step in which a Token() call
\* returns success, and a call whose refresh request failed returns that
\* error with a nil token, without a hook invocation and without a change
\* of tkr.lastToken.
C4_LastTokenChangesOnlyOnSuccess ==
    [][ /\ lastToken' # lastToken =>
             \E p \in Procs :
                 /\ pc[p] # "idle"
                 /\ pc'[p] = "idle"
                 /\ Deref(ret'[p]).err = NoError
                 /\ Deref(ret'[p]).token # Nil
                 /\ lastToken' = Deref(resp[p]).token
        /\ \A p \in Procs :
             (pc[p] = "responded" /\ Deref(resp[p]).err # NoError /\ pc'[p] # pc[p]) =>
                 /\ pc'[p] = "idle"
                 /\ Deref(ret'[p]).token = Nil
                 /\ Deref(ret'[p]).err = Deref(resp[p]).err
                 /\ hookCalls'[p] = <<>>
                 /\ lastToken' = lastToken ]_vars

C4_Witness ==
    /\ lastToken # Ref(Token(0))
    /\ \E p \in Procs :
         /\ pc[p] = "idle"
         /\ ret[p] # NoReturn
         /\ Deref(resp[p]).err = ProviderError

\* The latest calls of the goroutines have all returned.
AllReturned == \A p \in Procs : pc[p] = "idle" /\ ret[p] # NoReturn
\* None of them lost its request or response, none had its hook fail.
NoTransportFailure == \A p \in Procs : Deref(resp[p]).err # NetworkFailure
NoHookFailure ==
    \A p \in Procs : \A i \in 1..Len(hookCalls[p]) : hookCalls[p][i].err = NoError
\* The refresher held a refresh token the endpoint accepted as each began.
AllHeldValid == \A p \in Procs : heldValid[p]
\* One returned a token, every other one a provider error.
ExactlyOneSucceeded ==
    \E p \in Procs :
        /\ Deref(ret[p]).err = NoError
        /\ Deref(ret[p]).token # Nil
        /\ \A q \in Procs \ {p} :
             /\ Deref(ret[q]).token = Nil
             /\ Deref(ret[q]).err = ProviderError

\* C5 as it is stated: of two Token() calls that run concurrently on a
\* refresher holding one valid refresh token, against an endpoint that
\* invalidates a refresh token on use, exactly one succeeds and the other
\* fails with a provider error.
C5_ConcurrentCallsExactlyOne ==
    ( /\ singleUse
      /\ overlapped
      /\ AllReturned
      /\ AllHeldValid
      /\ \A p, q \in Procs : startToken[p] = startToken[q]
      /\ NoTransportFailure
      /\ NoHookFailure ) => ExactlyOneSucceeded

\* C5, amended: of two Token() calls that sent the same refresh token to an
\* endpoint that invalidates a refresh token on use, the endpoint accepts at
\* most one; and if the token was valid, no request or response was lost and
\* no hook failed, exactly one call succeeds and the other fails with a
\* provider error.
C5_SameRefreshTokenExactlyOne ==
    singleUse =>
        /\ \A p, q \in Procs :
              (p # q /\ sent[p] # NoRequest /\ sent[p] = sent[q]) =>
                  ~(accepted[p] /\ accepted[q])
        /\ ( /\ AllReturned
             /\ \A p, q \in Procs : sent[p] = sent[q]
             /\ AllHeldValid
             /\ NoTransportFailure
             /\ NoHookFailure ) => ExactlyOneSucceeded

C5_Witness ==
    /\ singleUse
    /\ overlapped
    /\ AllReturned
    /\ \A p, q \in Procs : sent[p] = sent[q]
    /\ ExactlyOneSucceeded

-----------------------------------------------------------------------------
\* Properties of Client.AuthCodeURL and Client.Link.

\* The challenges of the sample verifiers as computed by a reference
\* SHA-256 and unpadded URL-safe base64 implementation.
ReferenceChallenges ==
    <<
      <<97, 98, 82, 105, 103, 57, 51, 75, 112, 83, 49, 80, 109, 101, 119,
        119, 66, 67, 115, 78, 84, 82, 116, 121, 100, 49, 50, 56, 77, 110,
        77, 117, 102, 51, 112, 50, 103, 66, 98, 102, 90, 52, 107>>,
      <<97, 116, 67, 108, 77, 82, 115, 65, 76, 50, 112, 66, 49, 120, 115,
        81, 111, 97, 114, 81, 122, 119, 80, 107, 67, 118, 84, 110, 72, 72,
        69, 69, 68, 98, 81, 117, 106, 95, 98, 80, 76, 122, 103>>,
      <<111, 84, 65, 52, 50, 104, 108, 107, 57, 116, 84, 109, 111, 82, 79,
        121, 100, 114, 98, 69, 111, 102, 88, 110, 66, 53, 100, 82, 112,
        70, 68, 68, 53, 82, 80, 118, 49, 113, 51, 76, 69, 105, 81>>,
      <<90, 121, 86, 80, 77, 95, 71, 95, 90, 69, 69, 49, 110, 88, 98, 72,
        114, 90, 100, 86, 99, 114, 83, 79, 53, 106, 88, 87, 89, 70, 85,
        52, 50, 73, 108, 51, 78, 87, 117, 112, 85, 122, 111>>
    >>
ReferenceChallengeOf(codeVerifier) ==
    IF \E j \in 1..Len(ReferenceChallenges) :
          RandomSample(j, CodeVerifierLength) = codeVerifier
    THEN ReferenceChallenges[CHOOSE j \in 1..Len(ReferenceChallenges) :
                                RandomSample(j, CodeVerifierLength) = codeVerifier]
    ELSE <<>>

\* C6: the URL AuthCodeURL returns carries as code_challenge the unpadded
\* URL-safe base64 of the SHA-256 of the codeVerifier it returns, as state
\* the state it returns, and S256 as code_challenge_method; a Link call given
\* that codeVerifier sends a code_verifier whose challenge is the one in the
\* URL.
C6_ChallengeMatchesReturnedVerifier ==
    auth # Nil =>
        LET r == Deref(auth).ret
            q == r.url.query
        IN /\ {"code_challenge", "code_challenge_method", "state"} \subseteq DOMAIN q
           /\ Len(r.codeVerifier) = CodeVerifierLength
           /\ q["code_challenge"] = ReferenceChallengeOf(r.codeVerifier)
           /\ q["state"] = r.state
           /\ q["code_challenge_method"] = "S256"
           /\ \A code \in Codes, uri \in RedirectURIs :
                ReferenceChallengeOf(
                    ExchangeValues(code, LinkOpts(client, r.codeVerifier, uri))
                        ["code_verifier"]) = q["code_challenge"]

C6_Witness ==
    /\ auth # Nil
    /\ Deref(auth).ret.state # Deref(auth).ret.codeVerifier
    /\ Len(Deref(auth).ret.url.query["code_challenge"]) = 43

\* C7: a failed exchange makes Link return a nil response and an error with
\* the exchange context; the error wraps the parsed provider error when the
\* failure is an HTTP response with a structured error body, and the original
\* error, never a provider error, in every other case.
C7_LinkErrorWrapsProviderError ==
    (link # Nil /\ Deref(link).exchanged.err # NoError) =>
        LET e == Deref(link).exchanged.err
            r == Deref(link).ret
        IN /\ ~r.panic
           /\ r.resp = Nil
           /\ r.err.kind = "wrapError"
           /\ r.err.msg = "fitbit(oauth2): cannot fetch token"
           /\ IF /\ e.kind = "oauth2.RetrieveError"
                 /\ e.body # Nil
                 /\ Deref(e.body).structured
              THEN /\ r.err.cause.kind = "ProviderError"
                   /\ r.err.cause.errorType = Deref(e.body).errorType
                   /\ r.err.cause.message = Deref(e.body).message
              ELSE /\ r.err.cause = e
                   /\ r.err.cause.kind # "ProviderError"

C7_Witness ==
    /\ link # Nil
    /\ Deref(link).exchanged.err = RetrieveError(400, StructuredBody)
    /\ Deref(link).ret.err.cause.kind = "ProviderError"

\* C8: Link sends one authorization_code grant request with the code,
\* code_verifier and redirect_uri it was given, and with a client_id
\* parameter exactly when the client is a server application.
C8_LinkRequestParameters ==
    link # Nil =>
        LET l == Deref(link)
        IN /\ Len(l.requests) = 1
           /\ {"grant_type", "code", "code_verifier", "redirect_uri"}
                 \subseteq DOMAIN l.requests[1]
           /\ l.requests[1]["grant_type"] = "authorization_code"
           /\ l.requests[1]["code"] = l.code
           /\ l.requests[1]["code_verifier"] = l.codeVerifier
           /\ l.requests[1]["redirect_uri"] = l.reqURIString
           /\ ("client_id" \in DOMAIN l.requests[1])
                 <=> (client.applicationType = "ServerApplication")
           /\ "client_id" \in DOMAIN l.requests[1] =>
                 l.requests[1]["client_id"] = ClientID

C8_Witness ==
    /\ link # Nil
    /\ client.applicationType = "ServerApplication"
    /\ "client_id" \in DOMAIN Deref(link).requests[1]
    /\ Deref(link).reqURIString = "https://app/other"

\* The pieces of s between single separators: the substrings that start at
\* the beginning or after a separator, end at the end or before a separator,
\* and hold none.
Pieces(s, sep) ==
    {SubSeq(s, a + 1, b - 1) :
        <<a, b>> \in {ab \in (0..Len(s)) \X (1..(Len(s) + 1)) :
                        /\ ab[1] < ab[2]
                        /\ ab[1] = 0 \/ s[ab[1]] = sep
                        /\ ab[2] = Len(s) + 1 \/ s[ab[2]] = sep
                        /\ \A i \in (ab[1] + 1)..(ab[2] - 1) : s[i] # sep}}

\* The exchange succeeded with a string user_id and a string scope.
ExchangedWithStrings(l) ==
    /\ l.exchanged.err = NoError
    /\ {"user_id", "scope"} \subseteq DOMAIN Deref(l.exchanged.token).raw
    /\ Deref(l.exchanged.token).raw["user_id"].type = "string"
    /\ Deref(l.exchanged.token).raw["scope"].type = "string"

\* C9: for a successful exchange whose response carries user_id and scope
\* strings, Link returns a nil error and a LinkResponse with that user_id,
\* with exactly the pieces of the scope string between single spaces, and
\* with the response's access token, token type, refresh token and expiry.
C9_LinkResponseOfExchange ==
    (link # Nil /\ ExchangedWithStrings(Deref(link))) =>
        LET t == Deref(Deref(link).exchanged.token)
            r == Deref(link).ret
        IN /\ ~r.panic
           /\ r.err = NoError
           /\ r.resp # Nil
           /\ Deref(r.resp).UserID = t.raw["user_id"].val
           /\ Deref(r.resp).Scope # Nil
           /\ Deref(Deref(r.resp).Scope) = Pieces(t.raw["scope"].val, 32)
           /\ Deref(r.resp).Token # Nil
           /\ Deref(Deref(r.resp).Token).AccessToken = t.AccessToken
           /\ Deref(Deref(r.resp).Token).TokenType = t.TokenType
           /\ Deref(Deref(r.resp).Token).RefreshToken = t.RefreshToken
           /\ Deref(Deref(r.resp).Token).Expiry = t.Expiry

C9_Witness ==
    /\ link # Nil
    /\ ExchangedWithStrings(Deref(link))
    /\ Deref(Deref(link).exchanged.token).raw["scope"].val = <<97, 32, 32, 104>>
    /\ Deref(Deref(Deref(link).ret.resp).Scope) = {<<97>>, <<>>, <<104>>}

\* C10: every Link call returns a LinkResponse with a nil error or a nil
\* LinkResponse with a non-nil error, and none panics.
C10_LinkAlwaysReturns ==
    link # Nil =>
        LET r == Deref(link).ret
        IN /\ ~r.panic
           /\ \/ r.resp # Nil /\ r.err = NoError
              \/ r.resp = Nil /\ r.err # NoError

-----------------------------------------------------------------------------
\* The goroutine's latest Token() call has returned.
HasReturned(p) == pc[p] = "idle" /\ ret[p] # NoReturn

\* C11: a Token() call makes exactly one refresh_token grant request, whether
\* or not the retained token's expiry had passed when it began, and none
\* after the request failed.
C11_OneRefreshRequestPerCall ==
    \A p \in Procs :
        /\ pc[p] = "entered" => attempts[p] = 0
        /\ (pc[p] \in {"waiting", "responded", "hooked"} \/ HasReturned(p)) =>
              /\ attempts[p] = 1
              /\ sent[p] # NoRequest
              /\ Deref(sent[p])["grant_type"] = "refresh_token"

C11_Witness ==
    \E p, q \in Procs :
        /\ HasReturned(p) /\ ~expired[p] /\ Deref(ret[p]).err # NoError
        /\ HasReturned(q) /\ expired[q] /\ Deref(ret[q]).err = NoError

\* The refresh request of p's call succeeded and the hook is absent or
\* returned nil.
RefreshAndHookOK(p) ==
    /\ resp[p] # NoResponse
    /\ Deref(resp[p]).err = NoError
    /\ \/ ~client.updateTokenFunc
       \/ Len(hookCalls[p]) = 1 /\ hookCalls[p][1].err = NoError

\* C12: Token() returns a non-nil token with a nil error exactly when the
\* refresh request succeeded and the hook is absent or returned nil; then the
\* token is the newly issued one. In every other case it returns a nil token
\* with a non-nil error; it never returns the token it retained before.
C12_NoFallbackSuccess ==
    \A p \in Procs :
        HasReturned(p) =>
            LET r == Deref(ret[p])
            IN /\ (r.token # Nil /\ r.err = NoError) <=> RefreshAndHookOK(p)
               /\ RefreshAndHookOK(p) =>
                     r.token = asOAuth2Token(Deref(resp[p]).token)
               /\ ~RefreshAndHookOK(p) => (r.token = Nil /\ r.err # NoError)
               /\ r.token # asOAuth2Token(startToken[p])

C12_Witness ==
    \E p, q \in Procs :
        /\ HasReturned(p)
        /\ Len(hookCalls[p]) = 1
        /\ hookCalls[p][1].err = PersistenceHookFailure
        /\ Deref(ret[p]).token = Nil
        /\ HasReturned(q)
        /\ Deref(ret[q]).token # Nil

-----------------------------------------------------------------------------
\* C13: the URL AuthCodeURL returns carries prompt=consent exactly when the
\* client is in debug mode, and in both modes carries client_id,
\* response_type=code, scope, redirect_uri, state, code_challenge and
\* code_challenge_method.
C13_PromptConsentIffDebug ==
    auth # Nil =>
        LET q == Deref(auth).ret.url.query
        IN /\ ("prompt" \in DOMAIN q) <=> client.debugMode
           /\ "prompt" \in DOMAIN q => q["prompt"] = "consent"
           /\ {"client_id", "response_type", "scope", "redirect_uri", "state",
                "code_challenge", "code_challenge_method"} \subseteq DOMAIN q
           /\ q["client_id"] = ClientID
           /\ q["response_type"] = "code"
           /\ q["scope"] = Scopes
           /\ q["redirect_uri"] = Deref(auth).redirectURI
           /\ Deref(auth).ret.url.endpoint = AuthURL

C13_Witness ==
    /\ auth # Nil
    /\ client.debugMode
    /\ "prompt" \in DOMAIN Deref(auth).ret.url.query
    /\ Deref(auth).redirectURI = "https://app/other"

\* C14: AuthCodeURL makes no network request, and a step of AuthCodeURL or
\* Link (sending its request, or going on when Exchange returns) leaves the
\* client configuration and tkr.lastToken as they were and invokes no hook;
\* Link makes the one request it sent before it waited.
C14_ClientCallsChangeNothing ==
    [][ (auth' # auth \/ link' # link \/ linking' # linking) =>
            /\ client' = client
            /\ lastToken' = lastToken
            /\ hookCalls' = hookCalls
            /\ auth' # Nil => Deref(auth').requests = <<>>
            /\ \A i \in 1..Len(linking') : Len(linking'[i].requests) = 1
            /\ (link' # Nil /\ link' # link) =>
                  \E i \in 1..Len(linking) :
                      Deref(link').requests = linking[i].requests ]_vars

C14_Witness ==
    /\ link # Nil
    /\ Deref(link).ret.resp # Nil
    /\ lastToken = Ref(Token(1))
    /\ pc["g1"] = "hooked"
    /\ Len(hookCalls["g1"]) = 1

\* The tokens the token endpoint has issued, as it issued them.
IssuedTokens == {Token(k) : k \in 0..issued}

\* C15: a Token() call that got a new token never writes to a Token: the
\* token it handed to the hook as oldToken, and the token every goroutine saw
\* retained when its call began, keep every field as issued; the call only
\* makes tkr.lastToken point to the new Token, which is another Token than
\* the one retained before.
C15_TokenNeverMutated ==
    [][\A p \in Procs :
         (/\ pc[p] \in {"responded", "hooked"}
          /\ pc'[p] = "idle"
          /\ Deref(resp[p]).err = NoError)
         => /\ hookCalls' = hookCalls
            /\ startToken' = startToken
            /\ \A i \in 1..Len(hookCalls'[p]) :
                  Deref(hookCalls'[p][i].args.old) \in IssuedTokens
            /\ Deref(startToken'[p]) \in IssuedTokens
            /\ lastToken' # lastToken =>
                  /\ lastToken' = Deref(resp[p]).token
                  /\ Deref(lastToken') # Deref(lastToken)
            /\ Deref(ret'[p]).err = NoError => lastToken' = Deref(resp[p]).token
      ]_vars

\* A call whose hook was handed the constructor's token as oldToken returned
\* success; the refresher now holds the new token and the hook's record still
\* shows the constructor's token.
C15_Witness ==
    /\ prevCall # Nil
    /\ Len(Deref(prevCall).hooks) = 1
    /\ Deref(prevCall).hooks[1].err = NoError
    /\ Deref(prevCall).hooks[1].args.old = Ref(Token(0))
    /\ Deref(prevCall).ret.err = NoError
    /\ lastToken = Ref(Token(1))

\* Between calls: no goroutine is inside Token().
BetweenCalls == \A q \in Procs : pc[q] = "idle"
\* The refresher holds the refresh token the endpoint accepts, and no call
\* that returned was rejected by the endpoint.
HoldsValidNeverRejected ==
    /\ BetweenCalls => valid = {Deref(lastToken).RefreshToken}
    /\ \A p \in Procs :
          /\ HasReturned(p) => Deref(ret[p]).err # ProviderError
          /\ pc[p] \in {"responded", "hooked"} => Deref(resp[p]).err # ProviderError

\* C17 as stated: with an endpoint that invalidates a refresh token on use,
\* serialized calls and a hook that is absent or has never failed, between
\* calls tkr.lastToken holds the endpoint's valid refresh token and no call is
\* rejected by the endpoint.
C17_SerialAlwaysValid ==
    (singleUse /\ ~seen.hookFailed) => HoldsValidNeverRejected

\* C17, amended: the same, as long as no response to an accepted refresh was
\* lost on its way back to the caller.
C17_SerialValidUnlessLost ==
    (singleUse /\ ~seen.hookFailed /\ ~seen.lost) => HoldsValidNeverRejected

\* Two refreshes in a row succeeded and the refresher holds the second
\* token, whose refresh token is the one the endpoint accepts.
C17_Witness ==
    /\ singleUse
    /\ ~seen.hookFailed
    /\ ~seen.lost
    /\ BetweenCalls
    /\ issued = 2
    /\ lastToken = Ref(Token(2))
    /\ valid = {Token(2).RefreshToken}
    /\ prevCall # Nil
    /\ Deref(prevCall).startToken = Ref(Token(1))
    /\ Deref(prevCall).ret.err = NoError

\* Goroutine p's call returns in this step, and its hook did not fail.
ReturnsUnfailed(p) ==
    /\ pc[p] # "idle"
    /\ pc'[p] = "idle"
    /\ \A i \in 1..Len(hookCalls[p]) : hookCalls[p][i].err = NoError
\* Goroutine p's call began after every other call had returned.
AloneInCall(p) == ~overlapped /\ \A q \in Procs \ {p} : pc[q] = "idle"

\* C18 as stated: with an endpoint that invalidates a refresh token on use,
\* after a call's hook failed the refresher holds a consumed refresh token
\* and every later call returns a nil token and a provider error.
C18_LaterCallsProviderError ==
    [][(singleUse /\ seen.hookFailed) =>
          /\ Deref(lastToken).RefreshToken \notin valid
          /\ lastToken' = lastToken
          /\ \A p \in Procs :
                (ReturnsUnfailed(p) /\ AloneInCall(p)) =>
                    ret'[p] = Ref([token |-> Nil, err |-> ProviderError])
      ]_vars

\* C18, amended: after a call's hook failed the refresher holds a consumed
\* refresh token for good, the endpoint accepts no later request, and every
\* other call that returns from then on returns a nil token and an error: a
\* provider error when the endpoint's answer reached it, a network failure
\* when it did not.
C18_StrandedAfterHookFailure ==
    [][(singleUse /\ seen.hookFailed) =>
          /\ Deref(lastToken).RefreshToken \notin valid
          /\ lastToken' = lastToken
          /\ \A p \in Procs :
                ReturnsUnfailed(p) =>
                    /\ ~accepted[p]
                    /\ Deref(ret'[p]).token = Nil
                    /\ Deref(ret'[p]).err \in {ProviderError, NetworkFailure}
                    /\ Deref(ret'[p]).err = Deref(resp[p]).err
      ]_vars

\* After a hook failure a later call sent the constructor's refresh token
\* again and came back with a provider error; the token issued to the failed
\* call is held by nobody.
C18_Witness ==
    /\ singleUse
    /\ seen.hookFailed
    /\ issued = 1
    /\ lastToken = Ref(Token(0))
    /\ valid = {Token(1).RefreshToken}
    /\ prevCall # Nil
    /\ Deref(prevCall).hooks = <<>>
    /\ Deref(prevCall).sent = Ref(RefreshValues(Ref(Token(0))))
    /\ Deref(prevCall).ret = [token |-> Nil, err |-> ProviderError]

\* C19 as stated: with an endpoint that accepts a refresh token more than
\* once, in every interleaving of Token() calls a hook is handed as oldToken
\* the token whose refresh_token its call sent, and once all calls have
\* returned (no response lost, no hook failed) tkr.lastToken is the token the
\* endpoint issued last.
C19_HookOldTokenIsSentToken ==
    ~singleUse =>
        /\ \A p \in Procs :
              pc[p] = "hooked" =>
                  RefreshValues(hookCalls[p][1].args.old) = Deref(sent[p])
        /\ (BetweenCalls /\ ~seen.lost /\ ~seen.hookFailed) =>
                  lastToken = Ref(Token(issued))

\* C19, amended: that holds as long as no two calls were inside Token() at
\* the same time. In every interleaving the hook's newToken is the token its
\* call's request produced, and tkr.lastToken is the token of the call that
\* returned success last.
C19_SerializedHookOldToken ==
    ~singleUse =>
        /\ \A p \in Procs :
              pc[p] = "hooked" =>
                  /\ hookCalls[p][1].args.new = Deref(resp[p]).token
                  /\ ~seen.concurrent =>
                        /\ RefreshValues(hookCalls[p][1].args.old) = Deref(sent[p])
                        /\ hookCalls[p][1].args.old = startToken[p]
        /\ lastToken = lastSuccess
        /\ (BetweenCalls /\ ~seen.concurrent /\ ~seen.lost /\ ~seen.hookFailed) =>
                  lastToken = Ref(Token(issued))

\* Two calls, one after the other, both sent a refresh token the endpoint
\* accepted; the second one's hook is being handed the first one's token as
\* oldToken.
C19_Witness ==
    /\ ~singleUse
    /\ ~seen.concurrent
    /\ issued = 2
    /\ \E p \in Procs :
          /\ pc[p] = "hooked"
          /\ hookCalls[p][1].args = [old |-> Ref(Token(1)), new |-> Ref(Token(2))]
          /\ Deref(sent[p])["refresh_token"] = Token(1).RefreshToken
    /\ lastToken = Ref(Token(1))

-----------------------------------------------------------------------------
\* Properties of getCorrespondingUnit.

\* C20: every getCorrespondingUnit call returns: the pointer held by
\* UnitedStatesUnit for "en_US", the one held by UnitedKingdomUnit for
\* "en_GB", the one held by MetricUnit for every other locale, the empty one
\* included; and the three variables and the Units they point to stay as the
\* package initialised them.
C20_UnitForLocale ==
    /\ units = UnitTables
    /\ \A i \in 1..Len(unitCalls) :
          LET c == unitCalls[i]
          IN /\ c.ret # Nil
             /\ c.locale = "en_US" => c.ret = units.UnitedStatesUnit
             /\ c.locale = "en_GB" => c.ret = units.UnitedKingdomUnit
             /\ c.locale \notin {"en_US", "en_GB"} => c.ret = units.MetricUnit
             /\ c.locale = "en_US" => Deref(c.ret).Weight = "lb"
             /\ c.locale = "en_GB" => Deref(c.ret).Weight = "st"
             /\ c.locale \notin {"en_US", "en_GB"} => Deref(c.ret).Weight = "kg"

\* A call with the empty locale got the metric units and a call with a
\* lower-case "en_us" did too.
C20_Witness ==
    /\ Len(unitCalls) = 2
    /\ unitCalls[1] = [locale |-> "", ret |-> MetricUnit]
    /\ unitCalls[2] = [locale |-> "en_us", ret |-> MetricUnit]

====
